---- MODULE Spec2Model ----
(***************************************************************************)
(* OpenRamp: the chat client and its mock chat service, the profile panel  *)
(* tag editor, the conversational profile extractor, the iterative search  *)
(* orchestrator, the metrics store and its scores, and the client hooks:   *)
(* useUser, useRepos, the match radar, the automatic search and the debug  *)
(* log buffer.                                                             *)
(*                                                                         *)
(* Text is modelled as sequences: a string is a sequence of one-character  *)
(* strings, a chat message is a sequence of words.  The Chinese phrases of *)
(* the source are written in pinyin: "queren" is the confirmation phrase,  *)
(* "sousuo" the discovery phrase.                                          *)
(***************************************************************************)
EXTENDS Naturals, Integers, Sequences, FiniteSets, TLC

VARIABLES
    username,       \* useUser: the logged-in user, or NoUser
    profile,        \* useUser: the profile held in state, or NoProfile
    storage,        \* localStorage: the data stored under user_<username>
    chatLoading,    \* useAIChat: the loading flag
    turns,          \* the handleSendMessage calls in progress: id -> its locals
    nextTurn,       \* the number of sendMessage calls started so far
    reported,       \* the latest chat response received (status, skills, action, ...)
    searches,       \* the number of searchAPI.search calls the client has issued
    lastSearch,     \* localStorage: the users with a last_search_<username> record
    session,        \* ProfileExtractor: the per-user session store
    lastTurn,       \* ProfileExtractor: the result of the latest process_turn
    sPc,            \* SearchOrchestrator.search: idle, query, resolve, decide or done
    sArgs,          \* its arguments: profile, target_count, max_rounds, deadline
    round,          \* the rounds started so far
    clock,          \* the time elapsed since the call began
    query,          \* the round's query: skill terms kept, preference filters widened
    cands,          \* the new candidate ids of the round still to resolve
    scored,         \* the ids resolved and scored so far
    resolves,       \* how many times each id has been resolved and scored
    acc,            \* the accumulator: the accepted ids
    exhausted,      \* the exhausted flag returned
    dropped,        \* the ids of the round's answer dropped as scored in prior rounds
    results,        \* the result sequence returned
    tagError,       \* ProfilePanel: the validation error shown, or NoError
    offline,        \* MetricsStore: the offline map is unloaded, loaded or unavailable
    got,            \* MetricsStore: the latest call and what it returned
    calc,           \* the latest score calculation: its inputs and its result
    repos,          \* useRepos: the repository records held in state
    reposLoading,   \* useRepos: the loading flag
    fetches,        \* the fetchRepos calls in progress: id -> its params
    nextFetch,      \* the number of fetchRepos calls started so far
    loads,          \* useUser: the users whose profileAPI.get is in flight, oldest first
    profileOwner,   \* the user the profile held in state was loaded or updated for
    given,          \* per user, the latest value updateProfile was given for each field
    selectedPreferences, \* ProfilePanel: its selection, or NoPanel while it is not shown
    selectedRepo,   \* App: the repository clicked last, or NoRepo
    matchData,      \* App: the match data shown, or NoMatch
    matches,        \* the handleRepoClick calls awaiting matchAPI.calculate, oldest first
    effectDue,      \* App: a render changed isLoggedIn or profile, its effect has not run
    autoSearches,   \* the handleSearch calls of the effect awaiting searchAPI.search
    autoSearched,   \* the users an automatic search was issued for
    logs,           \* useDebugLogs: the buffer of log entries
    received,       \* the number of stream messages received so far
    parsed          \* the number of entries appended since the buffer was last empty

vars == <<username, profile, storage, chatLoading, turns, nextTurn, reported,
          searches, lastSearch, session, lastTurn,
          sPc, sArgs, round, clock, query, cands, scored, resolves, acc, exhausted,
          dropped, results, tagError, offline, got, calc,
          repos, reposLoading, fetches, nextFetch,
          loads, profileOwner, given, selectedPreferences, selectedRepo, matchData,
          matches, effectDue, autoSearches, autoSearched, logs, received, parsed>>

chatVars == <<chatLoading, turns, nextTurn, reported, searches, lastSearch>>
userVars == <<username, profile, storage>>
extractorVars == <<session, lastTurn>>
metricsVars == <<offline, got>>
reposVars == <<repos, reposLoading, fetches, nextFetch>>
loadVars == <<loads, profileOwner, given, selectedPreferences>>
matchVars == <<selectedRepo, matchData, matches>>
autoVars == <<effectDue, autoSearches, autoSearched>>
logVars == <<logs, received, parsed>>
appVars == <<loadVars, matchVars, autoVars, logVars>>
dataVars == <<metricsVars, calc, reposVars, appVars>>
searchVars == <<sPc, sArgs, round, clock, query, cands, scored, resolves, acc,
                exhausted, dropped, results>>

----------------------------------------------------------------------------
(* Text *)

UpperChars == <<"A","B","C","D","E","F","G","H","I","J","K","L","M",
                "N","O","P","Q","R","S","T","U","V","W","X","Y","Z">>
LowerChars == <<"a","b","c","d","e","f","g","h","i","j","k","l","m",
                "n","o","p","q","r","s","t","u","v","w","x","y","z">>
DigitChars == <<"0","1","2","3","4","5","6","7","8","9">>

Range(s) == {s[i] : i \in DOMAIN s}

Min(a, b) == IF a <= b THEN a ELSE b
Max(a, b) == IF a >= b THEN a ELSE b

\* The lower-case letter of each upper-case letter
LowerOf == [c \in Range(UpperChars) |->
              LowerChars[CHOOSE i \in DOMAIN UpperChars : UpperChars[i] = c]]

\* String.prototype.toLowerCase on one character
toLowerChar(c) == IF c \in DOMAIN LowerOf THEN LowerOf[c] ELSE c

\* String.prototype.toLowerCase on a string
toLowerCase(s) == [i \in DOMAIN s |-> toLowerChar(s[i])]

\* toLowerCase on a message, word by word
toLowerMessage(m) == [i \in DOMAIN m |-> toLowerCase(m[i])]

IsSpace(c) == c = " "

\* String.prototype.trim
RECURSIVE trimLeft(_)
trimLeft(s) == IF s # <<>> /\ IsSpace(Head(s)) THEN trimLeft(Tail(s)) ELSE s
RECURSIVE trimRight(_)
trimRight(s) ==
    IF s # <<>> /\ IsSpace(s[Len(s)]) THEN trimRight(SubSeq(s, 1, Len(s) - 1)) ELSE s
trim(s) == trimRight(trimLeft(s))

\* String.prototype.includes: the phrase (a sequence of words) occurs in the message
includes(m, phrase) ==
    \E i \in 1..(Len(m) + 1) :
        /\ i + Len(phrase) - 1 <= Len(m)
        /\ \A k \in 1..Len(phrase) : m[i + k - 1] = phrase[k]

\* content.trim() of a message: blank words at both ends are dropped
IsBlankWord(w) == \A i \in DOMAIN w : IsSpace(w[i])
RECURSIVE trimMessageLeft(_)
trimMessageLeft(m) ==
    IF m # <<>> /\ IsBlankWord(Head(m)) THEN trimMessageLeft(Tail(m)) ELSE m
RECURSIVE trimMessageRight(_)
trimMessageRight(m) ==
    IF m # <<>> /\ IsBlankWord(m[Len(m)])
      THEN trimMessageRight(SubSeq(m, 1, Len(m) - 1)) ELSE m
trimMessage(m) == trimMessageRight(trimMessageLeft(m))

----------------------------------------------------------------------------
(* Words, tokens and the chat messages a user may send *)

QUEREN == <<"queren">>      \* the confirmation phrase
JINENG == <<"jineng">>
SOUSUO == <<"sousuo">>      \* the discovery phrase
PIPEI == <<"pipeixiangmu">>
GENGXIN == <<"gengxinpianhao">>
SHANCHANG == <<"woshanchang">>
KAIFA == <<"kaifa">>
JUNK == <<"?","?","?">>
BLANK == <<" ">>

PYTHON == <<"p","y","t","h","o","n">>
JAVASCRIPT == <<"j","a","v","a","s","c","r","i","p","t">>
REACT == <<"r","e","a","c","t">>
DJANGO == <<"d","j","a","n","g","o">>
PythonCap == <<"P","y","t","h","o","n">>

\* Language names as repository records spell them
Python == <<"P","y","t","h","o","n">>
JavaScript == <<"J","a","v","a","S","c","r","i","p","t">>
TypeScript == <<"T","y","p","e","S","c","r","i","p","t">>

BUG_FIX == <<"b","u","g","_","f","i","x">>
FEATURE == <<"f","e","a","t","u","r","e">>
DOCS == <<"d","o","c","s">>
COMMUNITY == <<"c","o","m","m","u","n","i","t","y">>
REVIEW == <<"r","e","v","i","e","w">>
TEST == <<"t","e","s","t">>
BUG == <<"b","u","g">>
WENDANG == <<"wendang">>    \* "documentation"

\* SuggestionButtons: the three suggestions
suggestions == << <<QUEREN, JINENG>>, <<SOUSUO, PIPEI>>, <<GENGXIN>> >>

\* What a user may type into the chat input
TypedMessages ==
    { <<SHANCHANG, PythonCap, KAIFA>>,   \* "I am good at Python development"
      <<DJANGO>>,
      <<SHANCHANG, WENDANG>>,
      <<REACT, BUG>>,
      <<QUEREN, JINENG>>,
      <<QUEREN>>,
      <<SOUSUO, PIPEI>>,
      <<DJANGO, QUEREN>>,
      <<JUNK>>,
      <<BLANK>>,
      <<>> }

NoUser == "NoUser"
NoError == "NoError"
Users == {"alice", "bob"}

\* A profile is a JavaScript object: a function from its field names to their values.
\* null is the object-less value below.
NoProfile == [null |-> TRUE]

\* The profile panel is not shown, no repository is selected, no match data is held
NoPanel == "NoPanel"
NoRepo == "NoRepo"
NoMatch == [null |-> TRUE]

----------------------------------------------------------------------------
(* The mock chat service *)

Response(reply, status, skills, preferences, action, confirmed) ==
    [reply |-> reply, status |-> status, skills |-> skills,
     preferences |-> preferences, action |-> action, confirmed |-> confirmed,
     hasProfile |-> FALSE]    \* the mock's responses carry no profile field

\* mockChatAPI.send: user_id and session_id are not read
mockChatAPI_send(message) ==
    LET lowerMessage == toLowerMessage(message)
    IN  IF includes(lowerMessage, <<QUEREN>>) \/ includes(lowerMessage, <<QUEREN, JINENG>>)
          THEN Response("saved", "confirmed", <<PYTHON, JAVASCRIPT, REACT>>,
                        <<BUG_FIX, DOCS>>, "CONFIRM", TRUE)
        ELSE IF includes(lowerMessage, <<SOUSUO>>) \/ includes(lowerMessage, <<SOUSUO, PIPEI>>)
          THEN Response("searching", "collecting", <<PYTHON, JAVASCRIPT>>,
                        <<BUG_FIX>>, "SEARCH", FALSE)
        ELSE Response("continue", "collecting", <<PYTHON>>, <<>>, "NONE", FALSE)

\* chatAPI.send with VITE_USE_MOCK=true
chatAPI_send(user_id, message) == mockChatAPI_send(message)

\* mockProfileAPI.get
mockProfileAPI_get ==
    [skills |-> <<PYTHON, JAVASCRIPT>>, preferences |-> <<BUG_FIX, DOCS>>]

\* Before the first turn nothing has been reported: a fresh session is collecting
NoResponse == Response("none", "collecting", <<>>, <<>>, "NONE", FALSE)

----------------------------------------------------------------------------
(* The mock repository, search and match services *)

\* MOCK_REPOS.repos: the scores in percent, composite_score in thousandths
MOCK_REPOS ==
    << [repo_id |-> "test/repo1", languages |-> <<Python, JavaScript>>,
        active_score |-> 85, influence_score |-> 92,
        demand_score |-> 75, composite_score |-> 840],
       [repo_id |-> "test/repo2", languages |-> <<Python, TypeScript>>,
        active_score |-> 78, influence_score |-> 88,
        demand_score |-> 82, composite_score |-> 810],
       [repo_id |-> "test/repo3", languages |-> <<JavaScript, TypeScript>>,
        active_score |-> 72, influence_score |-> 75,
        demand_score |-> 88, composite_score |-> 770] >>

\* MOCK_REPOS.repos.slice(0, limit || 10); limit 0 stands for no limit given
MockSlice(limit) ==
    SubSeq(MOCK_REPOS, 1, Min(IF limit = 0 THEN 10 ELSE limit, Len(MOCK_REPOS)))

\* The params fetchRepos is called with: {limit: 10} on mount and on refresh, the ids of
\* the search result with limit 10 by handleSearch
FetchParams ==
    {[limit |-> l, repo_ids |-> ids] :
        l \in {0, 10},
        ids \in {<<>>, [i \in DOMAIN MOCK_REPOS |-> MOCK_REPOS[i].repo_id]}}

\* mockReposAPI.get: MOCK_REPOS.repos.slice(0, params?.limit || 10); repo_ids is not read
mockReposAPI_get(params) == MockSlice(params.limit)

\* mockSearchAPI.search: MOCK_REPOS.repos.slice(0, limit || 10); user_id is not read
mockSearchAPI_search(user_id, limit) == MockSlice(limit)

\* mockMatchAPI.calculate: the scores of the mock record of repo_id, or the fixed answer
\* for an id the mock does not hold; match_score in thousandths, the breakdown in
\* percent; user_id is not read
mockMatchAPI(user_id, repo_id) ==
    LET found == {i \in DOMAIN MOCK_REPOS : MOCK_REPOS[i].repo_id = repo_id}
    IN  IF found # {}
          THEN LET repo == MOCK_REPOS[CHOOSE i \in found : \A j \in found : i <= j]
               IN  [match_score |-> repo.composite_score,
                    skill |-> repo.influence_score,
                    activity |-> repo.active_score,
                    demand |-> repo.demand_score]
          ELSE [match_score |-> 850, skill |-> 90, activity |-> 80, demand |-> 85]

----------------------------------------------------------------------------
(* useUser *)

\* The own fields an object spread copies: none from null
Fields(p) == IF p = NoProfile THEN <<>> ELSE p

\* profile?.skills || []
SkillsOf(p) == IF "skills" \in DOMAIN p THEN p.skills ELSE <<>>

\* profile?.preferences || []
PreferencesOf(p) == IF "preferences" \in DOMAIN p THEN p.preferences ELSE <<>>

\* updateProfile as the closure of one render: user and prof are the username and
\* the profile that render saw
updateProfile(user, prof, newProfile) ==
    IF user = NoUser
      THEN UNCHANGED <<profile, storage>>
      ELSE LET updated == newProfile @@ Fields(prof)
           IN  /\ profile' = updated
               /\ storage' = [storage EXCEPT ![user] = updated]

----------------------------------------------------------------------------
(* useRepos *)

MaxFetches == 5

\* fetchRepos up to its await: setLoading(true) and the request is in flight
fetchRepos(params) ==
    /\ nextFetch < MaxFetches
    /\ reposLoading' = TRUE
    /\ fetches' = Append(fetches, [id |-> nextFetch, params |-> params])
    /\ nextFetch' = nextFetch + 1
    /\ UNCHANGED repos

\* The params of handleSearch's fetchRepos call: the ids of the search result, limit 10
SearchFetchParams(result) ==
    [limit |-> 10, repo_ids |-> [i \in DOMAIN result |-> result[i].repo_id]]

----------------------------------------------------------------------------
(* The chat window, useAIChat and App.handleSendMessage *)

MaxTurns == 3

\* sendMessage up to its await: the guard, setLoading(true), the request
sendMessage(content) ==
    /\ username # NoUser
    /\ trimMessage(content) # <<>>
    /\ nextTurn < MaxTurns
    /\ chatLoading' = TRUE
    /\ nextTurn' = nextTurn + 1
    /\ turns' = (nextTurn + 1 :> [content |-> content, user |-> username,
                                  prof |-> profile, pc |-> "sending",
                                  response |-> NoResponse]) @@ turns
    /\ UNCHANGED <<reported, searches, lastSearch>>

\* AIChatWindow.handleSubmit: the typed input, trimmed, unless a request is loading
handleSubmit(input) ==
    /\ trimMessage(input) # <<>>
    /\ ~chatLoading
    /\ sendMessage(trimMessage(input))
    /\ UNCHANGED <<userVars, extractorVars, searchVars, tagError, dataVars>>

\* AIChatWindow.handleSuggestion: a suggestion button
handleSuggestion(i) ==
    /\ sendMessage(suggestions[i])
    /\ UNCHANGED <<userVars, extractorVars, searchVars, tagError, dataVars>>

\* handleAIChatResponse: the profile update of a confirmed response
handleAIChatResponse(t, response) ==
    IF response.confirmed /\ response.hasProfile
      THEN updateProfile(t.user, t.prof, [skills |-> response.skills,
                                          preferences |-> response.preferences])
      ELSE UNCHANGED <<profile, storage>>

\* The response of a request arrives: sendMessage after its await, then
\* handleAIChatResponse, which starts handleSearch for a SEARCH action
chatResponse(id) ==
    /\ id \in DOMAIN turns
    /\ turns[id].pc = "sending"
    /\ LET t == turns[id]
           response == chatAPI_send(t.user, t.content)
       IN  /\ reported' = response
           /\ chatLoading' = FALSE
           /\ handleAIChatResponse(t, response)
           /\ IF response.action = "SEARCH" /\ t.user # NoUser
                THEN /\ searches' = searches + 1
                     /\ turns' = [turns EXCEPT ![id].pc = "searching",
                                                ![id].response = response]
                ELSE /\ searches' = searches
                     /\ turns' = [k \in DOMAIN turns \ {id} |-> turns[k]]
    /\ UNCHANGED <<username, nextTurn, lastSearch, extractorVars, searchVars, tagError, dataVars>>

\* searchAPI.search returns: handleSearch after its await calls fetchRepos with the
\* ids of the result and writes the last_search record of the user it searched for
searchDone(id) ==
    /\ id \in DOMAIN turns
    /\ turns[id].pc = "searching"
    /\ fetchRepos(SearchFetchParams(mockSearchAPI_search(turns[id].user, 10)))
    /\ lastSearch' = lastSearch \cup {turns[id].user}
    /\ turns' = [k \in DOMAIN turns \ {id} |-> turns[k]]
    /\ UNCHANGED <<userVars, chatLoading, nextTurn, reported, searches,
                   extractorVars, searchVars, tagError, metricsVars, calc, appVars>>

----------------------------------------------------------------------------
(* ProfileExtractor *)

MaxSessionTurns == 3

SkillVocabulary == {PYTHON, JAVASCRIPT, REACT, DJANGO}

PreferenceTypes == {BUG_FIX, FEATURE, DOCS, COMMUNITY, REVIEW, TEST}

\* The fixed lexicon of synonyms: word -> contribution type
PreferenceLexicon ==
    (BUG :> BUG_FIX) @@ (BUG_FIX :> BUG_FIX) @@ (DOCS :> DOCS) @@ (WENDANG :> DOCS)
    @@ (FEATURE :> FEATURE) @@ (TEST :> TEST)

\* The chat turns the extractor is driven with
ExtractorMessages ==
    { <<SHANCHANG, PythonCap, KAIFA>>, <<DJANGO>>, <<SHANCHANG, WENDANG>>,
      <<QUEREN, JINENG>>, <<SOUSUO, PIPEI>>, <<DJANGO, QUEREN>>, <<JUNK>> }

\* Step 1: the skill tokens of a message, case-folded, that the vocabulary knows
ExtractSkills(message) ==
    {toLowerCase(w) : w \in Range(message)} \cap SkillVocabulary

\* Step 1: the preference keywords of a message, mapped through the lexicon
ExtractPreferences(message) ==
    {PreferenceLexicon[toLowerCase(w)] :
        w \in {x \in Range(message) : toLowerCase(x) \in DOMAIN PreferenceLexicon}}

IsConfirmation(message) == includes(toLowerMessage(message), <<QUEREN>>)

IsDiscovery(message) == includes(toLowerMessage(message), <<SOUSUO>>)

\* Step 2: the merge of extracted tokens into a draft set
MergeReplace(draft, extracted) == IF extracted = {} THEN draft ELSE extracted
Merge(draft, extracted) == draft \cup extracted

FreshSession ==
    [state |-> "collecting", skills |-> {}, preferences |-> {},
     frozen |-> [skills |-> {}, preferences |-> {}], turnCount |-> 0]

\* Step 3: the action of a turn, from the state it arrives in and the merged draft
TurnAction(state, skills, message) ==
    IF IsConfirmation(message) /\ skills # {} THEN "CONFIRM"
    ELSE IF state = "confirmed" /\ IsDiscovery(message) THEN "SEARCH"
    ELSE "NONE"

\* Step 4: one transition per turn
Transition(state, skills, action) ==
    IF state = "collecting" /\ skills # {} THEN "pending"
    ELSE IF state = "pending" /\ action = "CONFIRM" THEN "confirmed"
    ELSE state

\* process_turn(session, message): the session afterwards and what is returned
process_turn(s, message) ==
    LET skills == Merge(s.skills, ExtractSkills(message))
        preferences == Merge(s.preferences, ExtractPreferences(message))
        action == TurnAction(s.state, skills, message)
        state == Transition(s.state, skills, action)
        empty == /\ ExtractSkills(message) = {}
                 /\ ExtractPreferences(message) = {}
                 /\ action = "NONE"
        frozen ==
            IF s.state = "pending" /\ state = "confirmed"
              THEN [skills |-> skills, preferences |-> preferences]
            ELSE IF s.state = "confirmed"
              THEN [s.frozen EXCEPT !.preferences = preferences]
            ELSE s.frozen
    IN  [session |-> [state |-> state, skills |-> skills, preferences |-> preferences,
                      frozen |-> frozen, turnCount |-> s.turnCount + 1],
         directive |-> IF empty THEN "clarify"
                       ELSE IF action = "CONFIRM" THEN "confirm"
                       ELSE IF action = "SEARCH" THEN "search" ELSE "continue",
         action |-> action,
         profile |-> frozen]

\* The session store's get: a session is created on the user's first turn
SessionOf(store, user) == IF user \in DOMAIN store THEN store[user] ELSE FreshSession

\* One chat turn of a user
ProcessTurn(user, message) ==
    /\ SessionOf(session, user).turnCount < MaxSessionTurns
    /\ LET r == process_turn(SessionOf(session, user), message)
       IN  /\ session' = (user :> r.session) @@ session
           /\ lastTurn' = [user |-> user, action |-> r.action, directive |-> r.directive]
    /\ UNCHANGED <<userVars, chatVars, searchVars, tagError, dataVars>>

----------------------------------------------------------------------------
(* MetricsStore scores and MatchScorer, in integer units *)


\* The repositories the external capabilities know, in ascending repo_id order
RepoIds == <<"a/api", "b/blog", "c/cli", "e/etl">>

RepoRank(id) == CHOOSE i \in DOMAIN RepoIds : RepoIds[i] = id

FASTAPI == <<"f","a","s","t","a","p","i">>

\* RepoMetrics records as MetricsStore resolves them
Catalog ==
    [id \in Range(RepoIds) |->
        CASE id = "a/api"  -> [keywords |-> {PYTHON, FASTAPI}, languages |-> <<Python>>,
                               active_days_90 |-> 30, daily_peak_activity |-> 10,
                               issues_new_90 |-> 10, openrank |-> 25]
          [] id = "b/blog" -> [keywords |-> {DJANGO}, languages |-> <<Python, JavaScript>>,
                               active_days_90 |-> 10, daily_peak_activity |-> 4,
                               issues_new_90 |-> 30, openrank |-> 10]
          [] id = "c/cli"  -> [keywords |-> {}, languages |-> <<>>,
                               active_days_90 |-> 2, daily_peak_activity |-> 1,
                               issues_new_90 |-> 0, openrank |-> 0]
          [] OTHER         -> [keywords |-> {PYTHON}, languages |-> <<Python, Python>>,
                               active_days_90 |-> 90, daily_peak_activity |-> 3,
                               issues_new_90 |-> 80, openrank |-> 70]]

\* Scores in percent: min(1, x) is Min(100, 100x)
active_scoreUnbounded(m) == m.active_days_90 * m.daily_peak_activity
active_score(m) == Min(100, m.active_days_90 * m.daily_peak_activity)
influence_score(m) == Min(100, 2 * m.openrank)
demand_score(m) == Min(100, 2 * m.issues_new_90)

\* composite_score in thousandths: 0.5*active + 0.3*influence + 0.2*demand
composite_score(m) == 5 * active_score(m) + 3 * influence_score(m) + 2 * demand_score(m)

\* The repository record served for an id: the scores in percent, composite_score in
\* thousandths
RepoRecord(id) ==
    [repo_id |-> id,
     active_score |-> active_score(Catalog[id]),
     influence_score |-> influence_score(Catalog[id]),
     demand_score |-> demand_score(Catalog[id]),
     composite_score |-> composite_score(Catalog[id])]

\* normalized(repo.languages): the case-folded languages, as a set
normalized(languages) == {toLowerCase(l) : l \in Range(languages)}

\* |profile.skills \cap (repo.keywords \cup normalized(repo.languages))|
SkillHits(skills, m) == Cardinality(skills \cap (m.keywords \cup normalized(m.languages)))

\* The default weights, in tenths
w_skill == 5
w_activity == 3
w_demand == 2

\* match_score times 1000 * max(1, |profile.skills|): one profile's scores share
\* the denominator, so they compare as these numerators do
match_score(skills, m) ==
    LET n == Max(1, Cardinality(skills))
    IN  w_skill * 100 * SkillHits(skills, m)
          + n * (w_activity * active_score(m) + w_demand * demand_score(m))

\* The acceptance threshold, in thousandths
Threshold == 300

Accepted(skills, id) ==
    match_score(skills, Catalog[id]) >= Threshold * Max(1, Cardinality(skills))

----------------------------------------------------------------------------
(* MetricsStore *)

NoCalc == [op |-> "none"]

MaxIds == 2

\* The ids the local snapshot holds
OfflineIds == {"a/api", "b/blog"}

\* The ids callers ask the store for: the snapshot's and one it does not hold
AskedIds == OfflineIds \cup {"c/cli"}

\* The repo_id lists a caller may ask for: up to MaxIds ids, repeats allowed
RECURSIVE IdLists(_)
IdLists(n) ==
    IF n = 0 THEN {<<>>}
    ELSE IdLists(n - 1)
           \cup {Append(l, id) : l \in {x \in IdLists(n - 1) : Len(x) = n - 1},
                                 id \in AskedIds}

\* How a call of the external metrics capability for one id ends
FetchOutcomes == {"ok", "timeout", "error"}

\* The snapshot's entry of an id
OfflineEntry(id) == [repo_id |-> id, metrics |-> Catalog[id], source |-> "offline"]

\* The record of a successful online fetch: live values, newer than the snapshot's
OnlineEntry(id) ==
    [repo_id |-> id,
     metrics |-> [Catalog[id] EXCEPT !.issues_new_90 = @ + 1],
     source |-> "online"]

\* A record substituted from the offline cache is marked degraded
DegradeUnmarked(entry) == entry
Degrade(entry) == [entry EXCEPT !.source = "degraded"]

\* The offline map cannot serve: it was never loaded, or its load failed
UnavailableNever(store) == FALSE
Unavailable(store) == store # "loaded"

NoCall == [op |-> "none"]

Failure(error) == [results |-> <<>>, missing |-> <<>>, error |-> error]

\* The filter of a sequence by a predicate given as the set of elements to keep
RECURSIVE Keep(_, _)
Keep(seq, set) ==
    IF seq = <<>> THEN <<>>
    ELSE IF Head(seq) \in set THEN <<Head(seq)>> \o Keep(Tail(seq), set)
    ELSE Keep(Tail(seq), set)

\* get in offline mode: an in-memory lookup, an id not present goes to missing
OfflineGetAbort(store, repo_ids) ==
    IF Unavailable(store) \/ Range(repo_ids) \ OfflineIds # {}
      THEN Failure("RepoNotFound")
    ELSE [results |-> [i \in DOMAIN repo_ids |-> OfflineEntry(repo_ids[i])],
          missing |-> <<>>, error |-> "none"]
OfflineGet(store, repo_ids) ==
    IF Unavailable(store) THEN Failure("OfflineUnavailable")
    ELSE LET present == Keep(repo_ids, OfflineIds)
         IN  [results |-> [i \in DOMAIN present |-> OfflineEntry(present[i])],
              missing |-> Keep(repo_ids, Range(repo_ids) \ OfflineIds),
              error |-> "none"]

\* get in online mode: each id is fetched; a fetch that times out or fails is served
\* from the offline cache, marked degraded, or reported missing
OnlineGet(store, repo_ids, fetch) ==
    LET cached == IF Unavailable(store) THEN {} ELSE OfflineIds
        served == {id \in Range(repo_ids) : fetch[id] = "ok" \/ id \in cached}
        present == Keep(repo_ids, served)
    IN  [results |-> [i \in DOMAIN present |->
                         IF fetch[present[i]] = "ok" THEN OnlineEntry(present[i])
                         ELSE Degrade(OfflineEntry(present[i]))],
         missing |-> Keep(repo_ids, Range(repo_ids) \ served),
         error |-> "none"]

\* load_offline(): idempotent; dir is the snapshot location as the call finds it
load_offline(dir) ==
    /\ offline' = IF offline = "loaded" THEN "loaded"
                  ELSE IF dir = "present" THEN "loaded"
                  ELSE "unavailable"
    /\ got' = [op |-> "load", dir |-> dir, store |-> offline,
               error |-> IF offline' = "loaded" THEN "none" ELSE "OfflineUnavailable"]
    /\ UNCHANGED <<userVars, chatVars, extractorVars, searchVars, tagError, calc,
                   reposVars, appVars>>

\* get(repo_ids, mode): fetch is how the external metrics capability answers each id
\* of the list (it is not called in offline mode)
get(repo_ids, mode, fetch) ==
    /\ LET r == IF mode = "offline" THEN OfflineGet(offline, repo_ids)
                ELSE OnlineGet(offline, repo_ids, fetch)
       IN  got' = [op |-> "get", mode |-> mode, repo_ids |-> repo_ids,
                   store |-> offline,
                   fetched |-> fetch,
                   results |-> r.results, missing |-> r.missing, error |-> r.error]
    /\ UNCHANGED <<offline, userVars, chatVars, extractorVars, searchVars, tagError,
                   calc, reposVars, appVars>>

----------------------------------------------------------------------------
(* SearchOrchestrator *)

MaxRounds == 3
MaxTarget == 2
MaxDeadline == 2
MaxCallTicks == 1

SearchProfiles == { {PYTHON, DJANGO}, {} }

\* Step 4's order: match_score descending, composite_score descending, repo_id ascending
Before(skills, a, b) ==
    LET ma == match_score(skills, Catalog[a])
        mb == match_score(skills, Catalog[b])
        ca == composite_score(Catalog[a])
        cb == composite_score(Catalog[b])
    IN  \/ ma > mb
        \/ ma = mb /\ ca > cb
        \/ ma = mb /\ ca = cb /\ RepoRank(a) < RepoRank(b)

RECURSIVE Sorted(_, _)
Sorted(skills, ids) ==
    IF ids = {} THEN <<>>
    ELSE LET best == CHOOSE a \in ids : \A b \in ids \ {a} : Before(skills, a, b)
         IN  <<best>> \o Sorted(skills, ids \ {best})

TakeAll(seq, n) == seq
Take(seq, n) == SubSeq(seq, 1, Min(n, Len(seq)))

NoArgs == [skills |-> {}, target_count |-> 1, max_rounds |-> 1, deadline |-> 1]

\* The return of search: the position, the flag and the result sequence
Return(flag, seq) ==
    /\ sPc' = "done"
    /\ exhausted' = flag
    /\ results' = seq

\* search(profile, target_count, max_rounds, deadline) is called
SearchStart(skills, target_count, max_rounds, deadline) ==
    /\ sPc = "idle"
    /\ sArgs' = [skills |-> skills, target_count |-> target_count,
                 max_rounds |-> max_rounds, deadline |-> deadline]
    /\ sPc' = "query"
    /\ query' = [terms |-> Cardinality(skills), widened |-> FALSE]
    /\ UNCHANGED <<round, clock, cands, scored, resolves, acc, exhausted, dropped,
                   results>>
    /\ UNCHANGED <<userVars, chatVars, extractorVars, tagError, dataVars>>

\* The loop's condition: another round is allowed
MoreRoundsUnbounded(r, max_rounds) == TRUE
MoreRounds(r, max_rounds) == r < max_rounds

\* Step 2: the answer deduplicated against the ids scored in prior rounds
NewCandidatesAll(answer, seen) == answer
NewCandidates(answer, seen) == answer \ seen

\* Step 7: a round that yields no new candidate is a stall
StalledNever(new) == FALSE
Stalled(new) == new = {}

\* Step 8: the deadline is exceeded
ExpiredNever(now, deadline) == FALSE
Expired(now, deadline) == now >= deadline

\* Steps 1-2 of a round: the external search capability answers with any list of ids
\* (none when it fails or times out) after some time; ids scored before are dropped.
\* Step 7: no new candidate ends the search.  Step 8: so does the deadline.
RoundQuery(answer, ticks) ==
    /\ sPc = "query"
    /\ MoreRounds(round, sArgs.max_rounds)
    /\ round' = round + 1
    /\ clock' = clock + ticks
    /\ dropped' = answer \cap scored
    /\ LET new == NewCandidates(answer, scored)
       IN  IF Expired(clock', sArgs.deadline)
             THEN /\ Return(TRUE, Sorted(sArgs.skills, acc))
                  /\ cands' = {}
           ELSE IF Stalled(new)
             THEN /\ Return(TRUE, Sorted(sArgs.skills, acc))
                  /\ cands' = {}
           ELSE /\ sPc' = "resolve"
                /\ cands' = new
                /\ UNCHANGED <<exhausted, results>>
    /\ UNCHANGED <<sArgs, query, scored, resolves, acc>>
    /\ UNCHANGED <<userVars, chatVars, extractorVars, tagError, dataVars>>

\* Step 6's limit: max_rounds rounds have run without reaching target_count
RoundsSpent ==
    /\ sPc = "query"
    /\ ~MoreRounds(round, sArgs.max_rounds)
    /\ Return(TRUE, Sorted(sArgs.skills, acc))
    /\ UNCHANGED <<sArgs, round, clock, query, cands, scored, resolves, acc, dropped>>
    /\ UNCHANGED <<userVars, chatVars, extractorVars, tagError, dataVars>>

\* Step 3 and 4 for one candidate: MetricsStore resolves it (or reports it missing),
\* MatchScorer scores it, and it joins the accumulator when accepted.
\* Step 8: the deadline passing with candidates left ends the search.
Resolve(id, found, ticks) ==
    /\ sPc = "resolve"
    /\ id \in cands
    /\ cands' = cands \ {id}
    /\ scored' = scored \cup {id}
    /\ resolves' = [resolves EXCEPT ![id] = @ + 1]
    /\ clock' = clock + ticks
    /\ acc' = IF found /\ Accepted(sArgs.skills, id) THEN acc \cup {id} ELSE acc
    /\ IF cands' = {}
         THEN /\ sPc' = "decide"
              /\ UNCHANGED <<exhausted, results>>
       ELSE IF Expired(clock', sArgs.deadline)
         THEN Return(TRUE, Sorted(sArgs.skills, acc'))
       ELSE UNCHANGED <<sPc, exhausted, results>>
    /\ UNCHANGED <<sArgs, round, query, dropped>>
    /\ UNCHANGED <<userVars, chatVars, extractorVars, tagError, dataVars>>

\* Step 6: drop the least-informative skill term, then widen the preference filters
Broaden(q) ==
    IF q.terms > 1 THEN [q EXCEPT !.terms = @ - 1] ELSE [q EXCEPT !.widened = TRUE]

\* Steps 5 and 6 at the end of a round
Decide ==
    /\ sPc = "decide"
    /\ IF Cardinality(acc) >= sArgs.target_count
         THEN /\ Return(FALSE, Take(Sorted(sArgs.skills, acc), sArgs.target_count))
              /\ query' = query
         ELSE /\ sPc' = "query"
              /\ query' = Broaden(query)
              /\ UNCHANGED <<exhausted, results>>
    /\ UNCHANGED <<sArgs, round, clock, cands, scored, resolves, acc, dropped>>
    /\ UNCHANGED <<userVars, chatVars, extractorVars, tagError, dataVars>>

\* The caller takes the result; another search may be called
SearchReturn ==
    /\ sPc = "done"
    /\ sPc' = "idle"
    /\ round' = 0
    /\ clock' = 0
    /\ cands' = {}
    /\ scored' = {}
    /\ resolves' = [id \in Range(RepoIds) |-> 0]
    /\ acc' = {}
    /\ sArgs' = NoArgs
    /\ query' = [terms |-> 0, widened |-> FALSE]
    /\ exhausted' = FALSE
    /\ dropped' = {}
    /\ results' = <<>>
    /\ UNCHANGED <<userVars, chatVars, extractorVars, tagError, dataVars>>

----------------------------------------------------------------------------
(* ProfilePanel: the skill tag editor *)

MaxTagLength == 20
MaxSkills == 3

Repeat(c, n) == [i \in 1..n |-> c]

\* What a user may type into a tag input
TagInputs ==
    { PYTHON, PythonCap, DJANGO,
      <<"[","g","o","]">>,
      <<" ","g","o"," ">>,
      <<" ","[","g","o","]">>,
      <<"c","+","+">>,
      <<"n","o","d","e","_","1","8">>,
      <<"[","]">>,
      <<>>,
      Repeat("a", MaxTagLength),
      Repeat("a", MaxTagLength + 1) }

\* replace(/^\[+/, ''): the leading brackets go
RECURSIVE stripLeft(_)
stripLeft(s) == IF s # <<>> /\ Head(s) = "[" THEN stripLeft(Tail(s)) ELSE s

\* replace(/\]+$/, ''): the trailing brackets go
RECURSIVE stripRight(_)
stripRight(s) ==
    IF s # <<>> /\ s[Len(s)] = "]" THEN stripRight(SubSeq(s, 1, Len(s) - 1)) ELSE s

\* cleanTag
cleanTag(tag) == trim(stripRight(stripLeft(tag)))

\* /^[a-zA-Z0-9_]+$/.test
IsWord(s) ==
    /\ s # <<>>
    /\ \A i \in DOMAIN s :
          s[i] \in Range(LowerChars) \cup Range(UpperChars) \cup Range(DigitChars) \cup {"_"}

\* validateTag(tag).error against the skills of the profile shown; NoError when valid
validateTag(tag, skills) ==
    LET clean == trim(stripRight(stripLeft(tag)))
    IN  IF clean = <<>> THEN "empty"
        ELSE IF ~IsWord(clean) THEN "charset"
        ELSE IF Len(clean) > MaxTagLength THEN "length"
        ELSE IF clean \in Range(skills) THEN "exists"
        ELSE NoError

\* Array.prototype.splice(index, 1)
splice(seq, index) == [i \in 1..(Len(seq) - 1) |-> IF i < index THEN seq[i] ELSE seq[i + 1]]

\* handleAdd with newTag typed
handleAdd(newTag) ==
    /\ username # NoUser
    /\ Len(SkillsOf(profile)) < MaxSkills
    /\ LET cleanedTag == cleanTag(newTag)
           error == validateTag(cleanedTag, SkillsOf(profile))
       IN  /\ tagError' = error
           /\ IF error = NoError
                THEN updateProfile(username, profile,
                                   [skills |-> Append(SkillsOf(profile), cleanedTag)])
                ELSE UNCHANGED <<profile, storage>>
    /\ UNCHANGED <<username, chatVars, extractorVars, searchVars, dataVars>>

\* handleSave(index) with editValue typed
handleSave(index, editValue) ==
    /\ username # NoUser
    /\ index \in DOMAIN SkillsOf(profile)
    /\ LET cleanedValue == cleanTag(editValue)
           error == validateTag(cleanedValue, SkillsOf(profile))
       IN  /\ tagError' = error
           /\ IF error = NoError
                THEN updateProfile(username, profile,
                       [skills |-> [SkillsOf(profile) EXCEPT ![index] = cleanedValue]])
                ELSE UNCHANGED <<profile, storage>>
    /\ UNCHANGED <<username, chatVars, extractorVars, searchVars, dataVars>>

\* handleDelete(index)
handleDelete(index) ==
    /\ username # NoUser
    /\ index \in DOMAIN SkillsOf(profile)
    /\ updateProfile(username, profile, [skills |-> splice(SkillsOf(profile), index)])
    /\ UNCHANGED <<username, tagError, chatVars, extractorVars, searchVars, dataVars>>

\* The chat responses of the HTTP backend that confirm a profile: the frozen
\* profile's skills and preferences, with the profile field set
BackendConfirmResponses ==
    { [reply |-> "saved", status |-> "confirmed", skills |-> sk, preferences |-> <<DOCS>>,
       action |-> "CONFIRM", confirmed |-> TRUE, hasProfile |-> TRUE] :
         sk \in { <<PYTHON>>, <<DJANGO, PYTHON>>, <<REACT>> } }

\* handleAIChatResponse for a confirming response of the backend
chatConfirmed(response) ==
    /\ username # NoUser
    /\ handleAIChatResponse([user |-> username, prof |-> profile], response)
    /\ UNCHANGED <<username, tagError, chatVars, extractorVars, searchVars, dataVars>>

----------------------------------------------------------------------------
(* useUser: login, logout and the profile loads; ProfilePanel: the preferences *)

MaxLoads == 2

\* login: setUsername, then loadProfile up to its await; the profile comes from
\* user_<username> when data is stored there, else profileAPI.get is called.  The login
\* modal opens only while no user is logged in
login(user) ==
    /\ username = NoUser
    /\ username' = user
    /\ IF storage[user] # NoProfile
         THEN /\ profile' = storage[user]
              /\ profileOwner' = user
              /\ loads' = loads
         ELSE /\ Len(loads) < MaxLoads
              /\ loads' = Append(loads, user)
              /\ UNCHANGED <<profile, profileOwner>>
    /\ effectDue' = TRUE
    /\ UNCHANGED <<storage, given, selectedPreferences, chatVars, extractorVars,
                   searchVars, tagError, metricsVars, calc, reposVars, matchVars,
                   autoSearches, autoSearched, logVars>>

\* logout: setUsername(null), setProfile(null); UserDropdown stops showing the panel
logout ==
    /\ username # NoUser
    /\ username' = NoUser
    /\ profile' = NoProfile
    /\ profileOwner' = NoUser
    /\ selectedPreferences' = NoPanel
    /\ effectDue' = TRUE
    /\ UNCHANGED <<storage, given, loads, chatVars, extractorVars,
                   searchVars, tagError, metricsVars, calc, reposVars, matchVars,
                   autoSearches, autoSearched, logVars>>

\* loadProfile after its await: the mock service answers the oldest call in flight;
\* setProfile(apiProfile) and storage.saveUserData(user, apiProfile) for the user the
\* call was made for
profileLoaded ==
    /\ loads # <<>>
    /\ profile' = mockProfileAPI_get
    /\ profileOwner' = Head(loads)
    /\ storage' = [storage EXCEPT ![Head(loads)] = mockProfileAPI_get]
    /\ loads' = Tail(loads)
    /\ effectDue' = TRUE
    /\ UNCHANGED <<username, given, selectedPreferences, chatVars, extractorVars,
                   searchVars, tagError, metricsVars, calc, reposVars, matchVars,
                   autoSearches, autoSearched, logVars>>

\* UserDropdown: a click on the avatar of the logged-in user shows ProfilePanel, whose
\* selection starts as profile?.preferences || []
openPanel ==
    /\ username # NoUser
    /\ selectedPreferences = NoPanel
    /\ selectedPreferences' = PreferencesOf(profile)
    /\ UNCHANGED <<userVars, loads, profileOwner, given, chatVars, extractorVars,
                   searchVars, tagError, metricsVars, calc, reposVars, matchVars,
                   autoVars, logVars>>

\* The preferences a user toggles in the panel
ToggledPreferences == {DOCS, TEST}

\* onUpdate of the panel: updateProfile of the latest render
onUpdate(newProfile) ==
    /\ updateProfile(username, profile, newProfile)
    /\ profileOwner' = username
    /\ given' = [given EXCEPT ![username] = newProfile @@ @]
    /\ effectDue' = TRUE

\* handleTogglePreference
handleTogglePreference(preference) ==
    /\ selectedPreferences # NoPanel
    /\ LET newPreferences ==
               IF preference \in Range(selectedPreferences)
                 THEN Keep(selectedPreferences, Range(selectedPreferences) \ {preference})
                 ELSE Append(selectedPreferences, preference)
       IN  /\ selectedPreferences' = newPreferences
           /\ onUpdate([preferences |-> newPreferences])
    /\ UNCHANGED <<username, loads, chatVars, extractorVars,
                   searchVars, tagError, metricsVars, calc, reposVars, matchVars,
                   autoSearches, autoSearched, logVars>>

\* handleDeletePreference: the delete button of a selected preference
handleDeletePreference(preference) ==
    /\ selectedPreferences # NoPanel
    /\ preference \in Range(selectedPreferences)
    /\ LET newPreferences ==
               Keep(selectedPreferences, Range(selectedPreferences) \ {preference})
       IN  /\ selectedPreferences' = newPreferences
           /\ onUpdate([preferences |-> newPreferences])
    /\ UNCHANGED <<username, loads, chatVars, extractorVars,
                   searchVars, tagError, metricsVars, calc, reposVars, matchVars,
                   autoSearches, autoSearched, logVars>>

----------------------------------------------------------------------------
(* App: the repository clicked and the match radar *)

MaxMatches == 2

\* The isActive prop of the radar: isLoggedIn && !!profile?.skills && skills.length > 0
isActive == username # NoUser /\ Len(SkillsOf(profile)) > 0

\* RadarPlaceholder: the locked placeholder, the radar chart, or the hint to click a
\* repository
RadarPlaceholder(active, data) ==
    IF ~active /\ data = NoMatch THEN "locked"
    ELSE IF data # NoMatch THEN "chart"
    ELSE "hint"

\* handleRepoClick up to its await: setSelectedRepo(repo), and matchAPI.calculate is
\* called when a user with skills is logged in
handleRepoClick(repo) ==
    /\ repo \in Range(repos)
    /\ selectedRepo' = repo.repo_id
    /\ IF isActive
         THEN /\ Len(matches) < MaxMatches
              /\ matches' = Append(matches, [user |-> username, repo |-> repo.repo_id])
         ELSE matches' = matches
    /\ UNCHANGED <<matchData, userVars, loadVars, chatVars, extractorVars, searchVars,
                   tagError, metricsVars, calc, reposVars, autoVars, logVars>>

\* handleRepoClick after its await: the mock service answers the oldest call in flight;
\* setMatchData with the scores of the answer and the id of the repository clicked
matchAnswered ==
    /\ matches # <<>>
    /\ matchData' = [repo_full_name |-> Head(matches).repo]
                       @@ mockMatchAPI(Head(matches).user, Head(matches).repo)
    /\ matches' = Tail(matches)
    /\ UNCHANGED <<selectedRepo, userVars, loadVars, chatVars, extractorVars, searchVars,
                   tagError, metricsVars, calc, reposVars, autoVars, logVars>>

----------------------------------------------------------------------------
(* App: the automatic search *)

MaxAuto == 2

\* The effect on [isLoggedIn, profile], run after a render that changed either: a user
\* with skills and no last_search record gets handleSearch, which calls
\* searchAPI.search
autoSearchEffect ==
    /\ effectDue
    /\ effectDue' = FALSE
    /\ IF isActive /\ username \notin lastSearch
         THEN /\ Len(autoSearches) < MaxAuto
              /\ autoSearches' = Append(autoSearches, username)
              /\ autoSearched' = autoSearched \cup {username}
              /\ searches' = searches + 1
         ELSE UNCHANGED <<autoSearches, autoSearched, searches>>
    /\ UNCHANGED <<userVars, loadVars, chatLoading, turns, nextTurn, reported, lastSearch,
                   extractorVars, searchVars, tagError, metricsVars, calc, reposVars,
                   matchVars, logVars>>

\* handleSearch after its await: the mock service answers the oldest call in flight;
\* fetchRepos with the ids of the result, then the last_search record of the user the
\* call was made for
autoSearchAnswered ==
    /\ autoSearches # <<>>
    /\ fetchRepos(SearchFetchParams(mockSearchAPI_search(Head(autoSearches), 10)))
    /\ lastSearch' = lastSearch \cup {Head(autoSearches)}
    /\ autoSearches' = Tail(autoSearches)
    /\ UNCHANGED <<effectDue, autoSearched, userVars, loadVars, chatLoading, turns,
                   nextTurn, reported, searches, extractorVars, searchVars, tagError,
                   metricsVars, calc, matchVars, logVars>>

----------------------------------------------------------------------------
(* useDebugLogs: the buffer of the log stream *)

\* The size the buffer is cut back to
MaxLogs == 200

MaxMessages == 203

\* Array.prototype.slice(-n) on an array longer than n: its last n elements
sliceWhole(seq, n) == seq
slice(seq, n) == SubSeq(seq, Len(seq) - n + 1, Len(seq))

\* eventSource.onmessage: JSON.parse(event.data) throws on data that is not JSON and
\* the buffer stays as it is; a parsed entry is appended and the buffer cut back to its
\* last MaxLogs entries.  An entry is written as its number among the entries appended
\* since the buffer was last empty
onmessage(isJSON) ==
    /\ received < MaxMessages
    /\ received' = received + 1
    /\ IF isJSON
         THEN /\ LET newLogs == Append(logs, parsed + 1)
                 IN  logs' = IF Len(newLogs) > MaxLogs THEN slice(newLogs, MaxLogs)
                             ELSE newLogs
              /\ parsed' = parsed + 1
         ELSE UNCHANGED <<logs, parsed>>
    /\ UNCHANGED <<userVars, chatVars, extractorVars, searchVars, tagError, metricsVars,
                   calc, reposVars, loadVars, matchVars, autoVars>>

\* clearLogs
clearLogs ==
    /\ logs' = <<>>
    /\ parsed' = 0
    /\ UNCHANGED <<received, userVars, chatVars, extractorVars, searchVars, tagError,
                   metricsVars, calc, reposVars, loadVars, matchVars, autoVars>>

----------------------------------------------------------------------------
(* RepoList: the list of repositories shown *)

SortTypes == {"match", "active", "friendly"}

\* The field the comparator of sortedRepos reads under a sort type
SortKey(repo, sortType) ==
    IF sortType = "active" THEN repo.active_score ELSE repo.composite_score

\* sortedRepos: [...repos].sort(comparator), descending by the field; Array.prototype.sort
\* is stable, so records of equal field keep the order they arrive in
RECURSIVE sortedRepos(_, _)
sortedRepos(list, sortType) ==
    IF list = <<>> THEN <<>>
    ELSE LET rest == sortedRepos(Tail(list), sortType)
             h == Head(list)
             k == Cardinality({i \in DOMAIN rest :
                                  SortKey(rest[i], sortType) > SortKey(h, sortType)})
         IN  SubSeq(rest, 1, k) \o <<h>> \o SubSeq(rest, k + 1, Len(rest))

----------------------------------------------------------------------------
(* The mock repository service and the callers of fetchRepos *)

\* The mount effect of useRepos, refresh and handleTagClick: fetchRepos(params)
callFetchRepos(params) ==
    /\ fetchRepos(params)
    /\ UNCHANGED <<userVars, chatVars, extractorVars, searchVars, tagError,
                   metricsVars, calc, appVars>>

\* fetchRepos after its await: the mock service answers every request after the same
\* delay, so the oldest request in flight is answered first; setRepos(response.repos),
\* then setLoading(false)
fetchReposAnswered ==
    /\ fetches # <<>>
    /\ repos' = mockReposAPI_get(Head(fetches).params)
    /\ reposLoading' = FALSE
    /\ fetches' = Tail(fetches)
    /\ UNCHANGED <<nextFetch, userVars, chatVars, extractorVars, searchVars, tagError,
                   metricsVars, calc, appVars>>

----------------------------------------------------------------------------
(* Scoring a repository for a profile, and the mock match service *)

\* The metrics a repository may have: every field non-negative, the raw quotients of
\* the health scores below, at and above 1
ScoreInputs ==
    [keywords : {{}, {PYTHON, FASTAPI}},
     languages : {<<>>, <<Python, JavaScript>>},
     active_days_90 : {0, 25, 90},
     daily_peak_activity : {0, 4},
     issues_new_90 : {0, 50, 51},
     openrank : {0, 25, 51}]

\* The scores of one repository for one profile: the health scores and the breakdown in
\* percent, composite_score in thousandths, match_score in thousandths of the unit
\* times max(1, |skills|)
score(m, skills) ==
    /\ calc' = [op |-> "score", metrics |-> m, skills |-> skills,
                active_score |-> active_score(m),
                influence_score |-> influence_score(m),
                demand_score |-> demand_score(m),
                composite_score |-> composite_score(m),
                skill |-> [hits |-> SkillHits(skills, m),
                           of |-> Max(1, Cardinality(skills))],
                activity |-> active_score(m),
                demand |-> demand_score(m),
                match_score |-> match_score(skills, m)]
    /\ UNCHANGED <<userVars, chatVars, extractorVars, searchVars, tagError,
                   metricsVars, reposVars, appVars>>

\* A call of mockMatchAPI.calculate for repo_id
mockMatchAPI_calculate(repo_id) ==
    /\ calc' = [op |-> "calculate", repo_id |-> repo_id]
                  @@ mockMatchAPI(NoUser, repo_id)
    /\ UNCHANGED <<userVars, chatVars, extractorVars, searchVars, tagError,
                   metricsVars, reposVars, appVars>>

----------------------------------------------------------------------------
(* Specifications *)

LoadedProfile == mockProfileAPI_get

Init ==
    /\ username \in Users \cup {NoUser}
    /\ profile = IF username = NoUser THEN NoProfile ELSE LoadedProfile
    /\ storage = [u \in Users |-> IF u = username THEN LoadedProfile ELSE NoProfile]
    /\ chatLoading = FALSE
    /\ turns = <<>>
    /\ nextTurn = 0
    /\ reported = NoResponse
    /\ searches = 0
    /\ lastSearch = {}
    /\ session = <<>>
    /\ lastTurn = [user |-> NoUser, action |-> "NONE", directive |-> "none"]
    /\ sPc = "idle"
    /\ sArgs = NoArgs
    /\ round = 0
    /\ clock = 0
    /\ query = [terms |-> 0, widened |-> FALSE]
    /\ cands = {}
    /\ scored = {}
    /\ resolves = [id \in Range(RepoIds) |-> 0]
    /\ acc = {}
    /\ exhausted = FALSE
    /\ dropped = {}
    /\ results = <<>>
    /\ tagError = NoError
    /\ offline = "unloaded"
    /\ got = NoCall
    /\ calc = NoCalc
    /\ repos = <<>>
    /\ reposLoading = FALSE
    /\ fetches = <<>>
    /\ nextFetch = 0
    /\ loads = <<>>
    /\ profileOwner = username
    /\ given = [u \in Users |-> <<>>]
    /\ selectedPreferences = NoPanel
    /\ selectedRepo = NoRepo
    /\ matchData = NoMatch
    /\ matches = <<>>
    /\ effectDue = TRUE
    /\ autoSearches = <<>>
    /\ autoSearched = {}
    /\ logs = <<>>
    /\ received = 0
    /\ parsed = 0

\* The chat client against the mock chat service
NextChat ==
    \/ \E input \in TypedMessages : handleSubmit(input)
    \/ \E i \in DOMAIN suggestions : handleSuggestion(i)
    \/ \E id \in DOMAIN turns : chatResponse(id)
    \/ \E id \in DOMAIN turns : searchDone(id)
    \/ fetchReposAnswered

SpecChat == Init /\ [][NextChat]_vars

\* The profile extractor serving the chat turns of its users
NextExtractor ==
    \E user \in Users : \E message \in ExtractorMessages :
        ProcessTurn(user, message)

SpecExtractor == Init /\ [][NextExtractor]_vars

\* The profile panel and the profile updates of confirmed chats
NextTags ==
    \/ \E newTag \in TagInputs : handleAdd(newTag)
    \/ \E index \in 1..MaxSkills : \E editValue \in TagInputs : handleSave(index, editValue)
    \/ \E index \in 1..MaxSkills : handleDelete(index)
    \/ \E response \in BackendConfirmResponses : chatConfirmed(response)

SpecTags == Init /\ [][NextTags]_vars

\* One search call after another
NextSearch ==
    \/ \E skills \in SearchProfiles : \E target_count \in 1..MaxTarget :
          \E max_rounds \in 0..MaxRounds : \E deadline \in 1..MaxDeadline :
            SearchStart(skills, target_count, max_rounds, deadline)
    \/ \E answer \in SUBSET Range(RepoIds) : \E ticks \in 0..MaxCallTicks :
          RoundQuery(answer, ticks)
    \/ RoundsSpent
    \/ \E id \in Range(RepoIds) : \E found \in BOOLEAN : \E ticks \in 0..MaxCallTicks :
          Resolve(id, found, ticks)
    \/ Decide
    \/ SearchReturn

SpecSearch == Init /\ [][NextSearch]_vars

\* A search call is a sequential computation: it keeps taking steps until it returns
SearchStep ==
    \/ \E answer \in SUBSET Range(RepoIds) : \E ticks \in 0..MaxCallTicks :
          RoundQuery(answer, ticks)
    \/ RoundsSpent
    \/ \E id \in Range(RepoIds) : \E found \in BOOLEAN : \E ticks \in 0..MaxCallTicks :
          Resolve(id, found, ticks)
    \/ Decide

SpecSearchFair == SpecSearch /\ WF_vars(SearchStep)

\* The metrics store serving its callers
NextMetrics ==
    \/ \E dir \in {"present", "absent"} : load_offline(dir)
    \/ \E repo_ids \in IdLists(MaxIds) : \E mode \in {"offline", "online"} :
          \E fetch \in [Range(repo_ids) ->
                           IF mode = "online" THEN FetchOutcomes ELSE {"none"}] :
            get(repo_ids, mode, fetch)

SpecMetrics == Init /\ [][NextMetrics]_vars

\* The repository list of the main page against the mock service
NextRepos ==
    \/ \E params \in FetchParams : callFetchRepos(params)
    \/ fetchReposAnswered

SpecRepos == Init /\ [][NextRepos]_vars

\* Scores computed for any repository metrics and any profile
NextScores ==
    \/ \E m \in ScoreInputs : \E skills \in SearchProfiles \cup {{PYTHON}} :
          score(m, skills)
    \/ \E repo_id \in {MOCK_REPOS[i].repo_id : i \in DOMAIN MOCK_REPOS} \cup {"x/none"} :
          mockMatchAPI_calculate(repo_id)

SpecScores == Init /\ [][NextScores]_vars

\* A user logging in and out and editing the preferences while profiles load
NextUser ==
    \/ \E user \in Users : login(user)
    \/ logout
    \/ profileLoaded
    \/ openPanel
    \/ \E preference \in ToggledPreferences : handleTogglePreference(preference)
    \/ \E preference \in ToggledPreferences \cup {BUG_FIX} :
          handleDeletePreference(preference)

SpecUser == Init /\ [][NextUser]_vars

\* The main page: the list fetched on mount, repositories clicked, users coming and going
NextRadar ==
    \/ \E user \in Users : login(user)
    \/ logout
    \/ profileLoaded
    \/ nextFetch = 0 /\ callFetchRepos([limit |-> 10, repo_ids |-> <<>>])
    \/ fetchReposAnswered
    \/ \E repo \in Range(MOCK_REPOS) : handleRepoClick(repo)
    \/ matchAnswered

SpecRadar == Init /\ [][NextRadar]_vars

\* The automatic search of users who log in and edit their preferences
NextAuto ==
    \/ \E user \in Users : login(user)
    \/ logout
    \/ profileLoaded
    \/ openPanel
    \/ handleTogglePreference(TEST)
    \/ autoSearchEffect
    \/ autoSearchAnswered
    \/ fetchReposAnswered

SpecAuto == Init /\ [][NextAuto]_vars

\* The debug window receiving the log stream
NextLogs ==
    \/ \E isJSON \in BOOLEAN : onmessage(isJSON)
    \/ clearLogs

SpecLogs == Init /\ [][NextLogs]_vars

----------------------------------------------------------------------------
(* Claims about the chat session as the chat service reports it *)

\* The request of turn id is answered in this step
Answered(id) ==
    /\ id \in DOMAIN turns
    /\ turns[id].pc = "sending"
    /\ id \notin DOMAIN turns' \/ turns'[id].pc # "sending"

\* A message with nothing to extract that asks for nothing either
NothingExtracted(message) ==
    /\ ExtractSkills(message) = {}
    /\ ExtractPreferences(message) = {}
    /\ ~IsConfirmation(message)
    /\ ~IsDiscovery(message)

\* C1: the reported session state changes only collecting -> pending and
\* pending -> confirmed, it becomes confirmed only in a turn whose action is CONFIRM,
\* and once confirmed it is never collecting or pending again.
C1_StateMachine ==
    [][ /\ reported'.status # reported.status
            => <<reported.status, reported'.status>>
                 \in { <<"collecting", "pending">>, <<"pending", "confirmed">> }
        /\ (reported.status # "confirmed" /\ reported'.status = "confirmed")
            => reported'.action = "CONFIRM"
        /\ reported.status = "confirmed" => reported'.status = "confirmed" ]_vars

\* C2: a turn's action is SEARCH only when its status is confirmed and its message
\* requests discovery, so the client starts no search from a turn that is not confirmed.
C2_SearchOnlyWhenConfirmed ==
    /\ reported.action = "SEARCH" => reported.status = "confirmed"
    /\ \A id \in DOMAIN turns :
          turns[id].pc = "searching"
            => /\ turns[id].response.status = "confirmed"
               /\ IsDiscovery(turns[id].content)

\* C3: the action is CONFIRM only for a message with a confirmation phrase and a draft
\* of at least one skill; the phrase alone on a draft without skills gives NONE and
\* leaves the state; the phrase on a pending draft with skills gives CONFIRM, confirmed.
C3_ConfirmNeedsSkill ==
    [][ \A id \in DOMAIN turns : Answered(id) =>
          LET message == turns[id].content
          IN  /\ reported'.action = "CONFIRM"
                  => IsConfirmation(message) /\ reported'.skills # <<>>
              /\ (IsConfirmation(message) /\ ExtractSkills(message) = {}
                     /\ reported.skills = <<>>)
                  => reported'.action = "NONE" /\ reported'.status = reported.status
              /\ (IsConfirmation(message) /\ reported.status = "pending"
                     /\ reported.skills # <<>>)
                  => reported'.action = "CONFIRM" /\ reported'.status = "confirmed" ]_vars

\* C4: after any turn a session whose draft has a skill is not collecting; the turn
\* that brings the first skill, without a confirmation phrase, moves the session to
\* pending and has action NONE.
C4_SkillMeansNotCollecting ==
    [][ \A id \in DOMAIN turns : Answered(id) =>
          /\ reported'.skills # <<>> => reported'.status # "collecting"
          /\ (reported.skills = <<>> /\ reported'.skills # <<>>
                 /\ ~IsConfirmation(turns[id].content))
              => reported'.status = "pending" /\ reported'.action = "NONE" ]_vars

\* C5: the chat turns of one user are serialized: never two requests in progress
C5_SingleWriter ==
    \A u \in Users :
        Cardinality({id \in DOMAIN turns :
                        turns[id].user = u /\ turns[id].pc = "sending"}) <= 1

\* C7: a turn with nothing to extract leaves the session state and the draft as they
\* were and is answered with the prompt to say more.
C7_NothingExtractedNothingChanged ==
    [][ \A id \in DOMAIN turns :
          (Answered(id) /\ NothingExtracted(turns[id].content))
            => /\ reported'.status = reported.status
               /\ reported'.skills = reported.skills
               /\ reported'.preferences = reported.preferences
               /\ reported'.reply = "continue" ]_vars

\* C8: once the session is confirmed every later turn leaves it confirmed and leaves
\* the frozen skill set; only the preferences may change.
C8_ConfirmedIsFrozen ==
    [][ reported.status = "confirmed"
          => reported'.status = "confirmed" /\ reported'.skills = reported.skills ]_vars

----------------------------------------------------------------------------
(* Claims about the profile extractor *)

SkillsAfter(s, message) == process_turn(s, message).session.skills
SessionAfter(s, message) == process_turn(s, message).session


----------------------------------------------------------------------------
(* Claims about the skill tags of a profile *)

\* [a-z0-9_]+
IsSkillToken(s) ==
    /\ s # <<>>
    /\ \A i \in DOMAIN s : s[i] \in Range(LowerChars) \cup Range(DigitChars) \cup {"_"}

\* C9: every skill token of the profile matches [a-z0-9_]+, is at most 20 long and
\* occurs once.
C9_SkillTokensWellFormed ==
    LET skills == SkillsOf(profile)
    IN  /\ \A i \in DOMAIN skills :
              IsSkillToken(skills[i]) /\ Len(skills[i]) <= MaxTagLength
        /\ \A i, j \in DOMAIN skills : skills[i] = skills[j] => i = j

----------------------------------------------------------------------------
(* Claims about the search orchestrator *)

\* C10: a search call always returns, after at most max_rounds rounds, whatever the
\* external search capability answers.
C10_SearchTerminates ==
    /\ (sPc # "idle") ~> (sPc = "done")
    /\ [](round <= sArgs.max_rounds)

\* A search of several rounds allowed returned after its first round, before the
\* deadline, the external search capability having answered with no candidate
C10_Witness ==
    /\ sPc = "done"
    /\ sArgs.max_rounds > 1
    /\ round = 1
    /\ scored = {}
    /\ clock < sArgs.deadline
    /\ exhausted

\* No element of a sequence occurs twice
NoRepeat(seq) == \A i, j \in DOMAIN seq : seq[i] = seq[j] => i = j

\* C11: a round that yields no new candidate ends the search at that round: the call
\* returns everything accumulated with exhausted = true and starts no further round,
\* also when rounds remain.
C11_StallStops ==
    [][ /\ (sPc = "query" /\ round' = round + 1 /\ cands' = {})
            => /\ sPc' = "done"
               /\ exhausted'
               /\ results' = Sorted(sArgs.skills, acc)
               /\ Range(results') = acc
        /\ sPc = "done" => sPc' \in {"done", "idle"} ]_vars

\* The second round of a search allowed a third stalled with results accumulated
C11_Witness ==
    /\ sPc = "done"
    /\ exhausted
    /\ round = 2
    /\ round < sArgs.max_rounds
    /\ clock < sArgs.deadline
    /\ acc # {}
    /\ Range(results) = acc

\* C12 as claimed: at the end of a round with target_count results accumulated the
\* search returns the target_count best with exhausted = false, and no search returns
\* more than target_count results.
C12_NeverMoreThanTarget ==
    [][ /\ (sPc = "decide" /\ Cardinality(acc) >= sArgs.target_count)
            => /\ sPc' = "done"
               /\ ~exhausted'
               /\ results' = Take(Sorted(sArgs.skills, acc), sArgs.target_count)
               /\ Len(results') = sArgs.target_count
        /\ (sPc # "done" /\ sPc' = "done")
            => Len(results') <= sArgs.target_count ]_vars

\* C12 amended: at the end of a round with target_count results accumulated the search
\* returns the target_count best with exhausted = false; a search returns more than
\* target_count results only when the deadline is exceeded in the middle of a round,
\* where it returns the whole partial accumulator with exhausted = true.
C12_TargetCount ==
    [][ /\ (sPc = "decide" /\ Cardinality(acc) >= sArgs.target_count)
            => /\ sPc' = "done"
               /\ ~exhausted'
               /\ results' = Take(Sorted(sArgs.skills, acc), sArgs.target_count)
               /\ Len(results') = sArgs.target_count
        /\ (sPc # "done" /\ sPc' = "done")
            => \/ Len(results') <= sArgs.target_count
               \/ /\ sPc = "resolve"
                  /\ cands' # {}
                  /\ clock' >= sArgs.deadline
                  /\ exhausted'
                  /\ Range(results') = acc'
        /\ (sPc # "done" /\ sPc' = "done" /\ ~exhausted')
            => Len(results') = sArgs.target_count ]_vars

\* A round accepted more than target_count repositories and the best were returned
C12_Witness ==
    /\ sPc = "done"
    /\ ~exhausted
    /\ Cardinality(acc) > sArgs.target_count
    /\ Len(results) = sArgs.target_count

\* C13: when the deadline is exceeded in the middle of a round the search returns with
\* exhausted = true and its results hold every repository accepted so far.
C13_DeadlineKeepsPartial ==
    [][ /\ (sPc = "resolve" /\ cands' # {} /\ clock' >= sArgs.deadline)
            => /\ sPc' = "done"
               /\ exhausted'
               /\ acc \subseteq acc'
               /\ Range(results') = acc'
        /\ (sPc = "query" /\ round' = round + 1 /\ clock' >= sArgs.deadline)
            => /\ sPc' = "done"
               /\ exhausted'
               /\ Range(results') = acc ]_vars

\* The deadline passed with candidates of the round left and results accumulated
C13_Witness ==
    /\ sPc = "done"
    /\ exhausted
    /\ cands # {}
    /\ clock >= sArgs.deadline
    /\ acc # {}
    /\ Range(results) = acc

Ranked(skills, seq) ==
    \A i, j \in DOMAIN seq : i < j => Before(skills, seq[i], seq[j])

\* C14: the results of a search are ordered by match_score descending, then
\* composite_score descending, then repo_id ascending, and the list shown under the
\* 'match' sort keeps that order.
C14_ShownInMatchOrder ==
    sPc = "done"
      => /\ Ranked(sArgs.skills, results)
         /\ \A shown \in {[i \in DOMAIN results |-> RepoRecord(results[i])]} :
               sortedRepos(shown, "match") = shown

----------------------------------------------------------------------------
(* Claims about the metrics store *)

ResultIds(call) == {call.results[i].repo_id : i \in DOMAIN call.results}

C18_OfflineUnavailable ==
    /\ got.op = "load" /\ got.dir = "absent" /\ got.store # "loaded"
         => got.error = "OfflineUnavailable" /\ offline = "unavailable"
    /\ got.op = "get" /\ got.mode = "offline" /\ got.store = "unavailable"
         => got.error = "OfflineUnavailable"
    /\ got.op = "get" /\ got.mode = "offline" /\ got.error = "none"
         => got.store = "loaded"

\* An offline get after a load that found no snapshot
C18_Witness ==
    /\ got.op = "get"
    /\ got.mode = "offline"
    /\ got.store = "unavailable"
    /\ got.repo_ids # <<>>
    /\ got.error = "OfflineUnavailable"

----------------------------------------------------------------------------
(* Claims about the scores of a repository record *)

\* C19: the composite_score of every repository record the client holds, the mock
\* records included, equals 0.5 * active_score + 0.3 * influence_score
\* + 0.2 * demand_score
C19_CompositeIsWeightedSum ==
    \A i \in DOMAIN repos :
        repos[i].composite_score
          = 5 * repos[i].active_score + 3 * repos[i].influence_score
              + 2 * repos[i].demand_score

\* C20: for non-negative metrics and any profile each of active_score, influence_score,
\* demand_score, composite_score, skill, activity, demand and match_score lies in
\* [0,1], the answers of the mock match service included, and each of the three health
\* scores is 1 when its raw quotient exceeds 1
C20_ScoresInUnitInterval ==
    /\ calc.op = "score"
         => /\ calc.active_score \in 0..100
            /\ calc.influence_score \in 0..100
            /\ calc.demand_score \in 0..100
            /\ calc.composite_score \in 0..1000
            /\ calc.skill.hits \in 0..calc.skill.of
            /\ calc.activity \in 0..100
            /\ calc.demand \in 0..100
            /\ calc.match_score \in 0..(1000 * Max(1, Cardinality(calc.skills)))
            /\ calc.metrics.active_days_90 * calc.metrics.daily_peak_activity > 100
                 => calc.active_score = 100
            /\ calc.metrics.openrank > 50 => calc.influence_score = 100
            /\ calc.metrics.issues_new_90 > 50 => calc.demand_score = 100
    /\ calc.op = "calculate"
         => /\ calc.match_score \in 0..1000
            /\ calc.skill \in 0..100
            /\ calc.activity \in 0..100
            /\ calc.demand \in 0..100

\* Scores of a repository whose three raw quotients all exceed 1, for a profile with a
\* skill the repository matches
C20_Witness ==
    /\ calc.op = "score"
    /\ calc.metrics.active_days_90 * calc.metrics.daily_peak_activity > 100
    /\ calc.metrics.openrank > 50
    /\ calc.metrics.issues_new_90 > 50
    /\ calc.skill.hits > 0
    /\ calc.composite_score = 1000

----------------------------------------------------------------------------
(* Claims about the client: the chat, the repository list, the user, the radar *)

\* C22: after a chat response with confirmed=true the client stores the confirmed
\* skills and preferences in the user's profile, in state and under user_<username>,
\* and a search for that user is then issued without further user action.  The
\* formula is the storing half: while the latest response is a confirming one, the
\* profile holds its skills and preferences
C22_ConfirmedProfileStored ==
    reported.confirmed
      => /\ SkillsOf(profile) = reported.skills
         /\ PreferencesOf(profile) = reported.preferences
         /\ storage[username] = profile

\* C26: while any fetchRepos call is in flight loading is true, and when the last of
\* several overlapping calls completes the repos state holds the response of the call
\* issued most recently
C26_OverlappingFetches ==
    [][/\ fetches' # <<>> => reposLoading'
       /\ fetches # <<>> /\ fetches' = <<>>
            => /\ Head(fetches).id = nextFetch - 1
               /\ repos' = mockReposAPI_get(Head(fetches).params)]_vars

\* C27: the loading flag of useAIChat is true exactly while a chat request is in flight
C27_LoadingWhileInFlight ==
    chatLoading <=> \E id \in DOMAIN turns : turns[id].pc = "sending"

\* C24: whatever the order of logins, logouts and profile-load completions, the profile
\* held in state is non-null only while a user is logged in, and it is the profile of
\* the user logged in now, never one loaded for an earlier login
C24_ProfileOfCurrentUser ==
    profile # NoProfile => username # NoUser /\ profileOwner = username

\* C30: updateProfile loses no update: while a user who has made updateProfile calls is
\* logged in, the profile in state and the data stored under user_<username> are equal,
\* and every field holds the latest value an updateProfile call of that user gave it
\* (a call without a user changes nothing: updateProfile returns at once)
C30_NoLostUpdate ==
    username # NoUser /\ given[username] # <<>>
      => /\ storage[username] = profile
         /\ \A f \in DOMAIN given[username] :
               /\ f \in DOMAIN profile
               /\ profile[f] = given[username][f]

\* The mock record of a repository id, as the metrics MatchScorer reads
MockMetrics(repo_id) ==
    LET found == {i \in DOMAIN MOCK_REPOS : MOCK_REPOS[i].repo_id = repo_id}
    IN  [keywords |-> {},
         languages |-> IF found = {} THEN <<>> ELSE MOCK_REPOS[CHOOSE i \in found : TRUE].languages]

\* C21: the skill dimension of a match equals the number of profile skills found among
\* the repository's keywords and case-normalized languages, divided by
\* max(1, number of profile skills); here for the match data shown to the logged-in
\* user, in percent
C21_SkillDimension ==
    matchData # NoMatch /\ isActive
      => matchData.skill * Max(1, Cardinality(Range(SkillsOf(profile))))
           = 100 * SkillHits(Range(SkillsOf(profile)), MockMetrics(matchData.repo_full_name))

\* C23: the radar chart is displayed only while a user is logged in whose profile has
\* at least one skill
C23_RadarOnlyWhenActive ==
    RadarPlaceholder(isActive, matchData) = "chart" => isActive

\* C25: once every pending match request has completed, the match data shown is that
\* of the repository selected
C25_MatchOfSelectedRepo ==
    matches = <<>> /\ matchData # NoMatch
      => matchData.repo_full_name = selectedRepo

\* C28: the automatic search runs at most once per username: it is issued only for the
\* user logged in, with at least one skill and no last_search record, and never for a
\* username an automatic search was issued for before
C28_AutoSearchOnce ==
    [][Len(autoSearches') > Len(autoSearches)
         => /\ isActive
            /\ autoSearches'[Len(autoSearches')] = username
            /\ username \notin lastSearch
            /\ username \notin autoSearched]_vars

\* C29: the debug log buffer never holds more than 200 entries: it holds the most
\* recent min(n, 200) of the n entries parsed, in arrival order, and a message that is
\* not valid JSON leaves it unchanged
C29_LogBufferBounded ==
    /\ Len(logs) <= MaxLogs
    /\ Len(logs) = Min(parsed, MaxLogs)
    /\ \A i \in DOMAIN logs : logs[i] = parsed - Len(logs) + i
    /\ parsed <= received

\* More than 200 entries and a message that is not JSON have arrived
C29_Witness ==
    /\ parsed > MaxLogs
    /\ received > parsed
    /\ Len(logs) = MaxLogs
    /\ logs[1] = parsed - MaxLogs + 1

============================================================================
